---- MODULE Spec2Model ----
(***************************************************************************)
(* Model of apns2/newclient.py: APNsClient.connect,                        *)
(* APNsClient.update_max_concurrent_streams,                               *)
(* APNsClient.should_send_notification, APNsClient.get_notification_result *)
(* and the dispatch loop of APNsClient.send_notification_batch.            *)
(*                                                                         *)
(* The transport (hyper's HTTP20Connection) and the gateway are the        *)
(* environment: the gateway advertises a max_concurrent_streams setting    *)
(* that it may change at any time, answers the requests in any order, and  *)
(* the connection may drop.  A response is a status with the JSON body the *)
(* gateway sends with it (a "reason" member on a failure).                 *)
(***************************************************************************)
EXTENDS Integers, Sequences, FiniteSets, TLC

(* ---------------------------- bounds ----------------------------------- *)

\* longest token list handed to send_notification_batch
MaxTokens == 3
\* SETTINGS frames that change the ceiling while one batch runs
MaxCeilingChanges == 1

(* ------------------------- program constants --------------------------- *)

CONCURRENT_STREAMS_SAFETY_MAXIMUM == 1000
MAX_CONNECTION_RETRIES == 3

\* Python's None, for the two limit fields that start as None
None == -1
\* next(token_iterator, None) when the iterator is exhausted
NoToken == "None"

(* --------------------------- environment ------------------------------- *)

\* device tokens a caller may pass
TokenAlphabet == {"A", "B", "C"}

\* values the gateway may advertise as SETTINGS_MAX_CONCURRENT_STREAMS
Ceilings == {0, 2, 250, 5000}

\* responses the gateway may give to a request
Responses ==
    { [status |-> 200, body |-> [reason |-> ""]],
      [status |-> 400, body |-> [reason |-> "BadDeviceToken"]] }

\* stream ids the transport hands out, in order
StreamIds == 1 .. MaxTokens

\* what the transport's connect() may do on each call of one connect():
\* TRUE = the attempt succeeds, FALSE = it raises.  One more than the retry
\* budget, so that an attempt past the budget would be seen.
AttemptOutcomes == [1 .. MAX_CONNECTION_RETRIES + 1 -> BOOLEAN]

\* position of a token in the alphabet
TokenRank(t) == CASE t = "A" -> 1 [] t = "B" -> 2 [] t = "C" -> 3

\* The token lists of at most MaxTokens tokens, one per renaming of the
\* tokens (the client never looks into a token): the first token is "A" and
\* a token is at most one past the ones before it.  Repeats are included.
TokenLists ==
    { l \in UNION { [1 .. n -> TokenAlphabet] : n \in 0 .. MaxTokens } :
        \A i \in 1 .. Len(l) :
            \/ TokenRank(l[i]) = 1
            \/ \E j \in 1 .. i - 1 : TokenRank(l[j]) = TokenRank(l[i]) - 1 }

NoStream == [stream_id |-> 0, token |-> NoToken]

(* ------------------------------ state ---------------------------------- *)

VARIABLES
    pc,                  \* "idle", "loop", "await", "done", "failed"
    tokens,              \* the tokens argument of the batch
    cursor,              \* position of next_token in tokens (past the end: None)
    open_streams,        \* the deque of RequestStream(stream_id, token)
    pending_stream,      \* the RequestStream popped and being awaited
    results,             \* the results dict of send_notification_batch
    max_concurrent_streams,                 \* self.__max_concurrent_streams
    previous_server_max_concurrent_streams, \* self.__previous_server_...
    remote_max_concurrent_streams,  \* connection.remote_settings.max_concurrent_streams
    connected,           \* the transport holds an open socket
    arrived,             \* stream ids whose response the transport has received
    next_stream_id,      \* next stream id the transport hands out
    lastConnect,         \* what the connect() call that has just returned did
    auth_token,          \* self._auth_token: the issue number of the credential
    auth_token_expired,  \* self.auth_token_expired
    headers,             \* the credential in self.headers['Authorization']
    \* history
    connLost,            \* the connection dropped at some point
    ceilingChanges,      \* SETTINGS frames that changed the ceiling so far
    yielded,             \* the values send_notification_batch yielded
    trace,               \* admit / drain decisions of the loop, in order
    requested,           \* tokens requested on the transport, in order
    getResultCalls,      \* stream id -> calls of get_notification_result
    limitChangedEvents   \* log records of update_max_concurrent_streams

vars == << pc, tokens, cursor, open_streams, pending_stream, results,
           max_concurrent_streams, previous_server_max_concurrent_streams,
           remote_max_concurrent_streams, connected, arrived, next_stream_id,
           lastConnect, auth_token, auth_token_expired, headers, connLost, ceilingChanges, yielded, trace, requested,
           getResultCalls, limitChangedEvents >>

clientVars == << max_concurrent_streams, previous_server_max_concurrent_streams >>
loopVars == << tokens, cursor, open_streams, pending_stream, results >>
authVars == << auth_token, auth_token_expired, headers >>
histVars == << yielded, trace, requested, getResultCalls, limitChangedEvents >>

\* self._auth_token = None, self.headers = None
NoCredential == 0

\* get_auth_token(): a credential is signed (the next issue number) when
\* there is none or the one there is marked expired
get_auth_token(token, expired) ==
    IF token = NoCredential \/ expired
    THEN [token |-> token + 1, expired |-> FALSE]
    ELSE [token |-> token, expired |-> expired]

\* prepare_headers() of a client with token authorization: the Authorization
\* header carries what get_auth_token() returns
prepare_headers(token, expired) ==
    LET t == get_auth_token(token, expired)
    IN  [Authorization |-> t.token, token |-> t.token, expired |-> t.expired]

NoConnect == [called |-> FALSE, attempts |-> 0, raised |-> FALSE,
              connected |-> FALSE, wasConnected |-> FALSE, outcomes |-> <<>>]

Init ==
    /\ pc = "idle"
    /\ tokens = <<>>
    /\ cursor = 1
    /\ open_streams = <<>>
    /\ pending_stream = NoStream
    /\ results = <<>>
    /\ max_concurrent_streams = None
    /\ previous_server_max_concurrent_streams = None
    /\ remote_max_concurrent_streams \in Ceilings
    /\ connected = FALSE
    /\ arrived = {}
    /\ next_stream_id = 1
    /\ lastConnect = NoConnect
    /\ auth_token = get_auth_token(NoCredential, FALSE).token
    /\ auth_token_expired = FALSE
    /\ headers = NoCredential
    /\ connLost = FALSE
    /\ ceilingChanges = 0
    /\ yielded = <<>>
    /\ trace = <<>>
    /\ requested = <<>>
    /\ getResultCalls = [s \in StreamIds |-> 0]
    /\ limitChangedEvents = 0

(* --------------------------- the transport ----------------------------- *)

\* a connect that dials again on a connection that already has a socket
TransportConnect_redial(isConnected, outcome) == outcome

\* HTTP20Connection.connect(): does nothing on a connection that already has
\* a socket; otherwise the attempt succeeds or raises
TransportConnect(isConnected, outcome) == isConnected \/ outcome

(* ---------------------------- connect() -------------------------------- *)

RECURSIVE connect_retry(_, _, _)
\* the while loop of connect(): retries failures so far; outcomes[i] is what
\* the i-th call of the transport's connect() does
connect_retry(retries, isConnected, outcomes) ==
    IF retries < MAX_CONNECTION_RETRIES
    THEN IF TransportConnect(isConnected, outcomes[retries + 1])
         THEN [attempts |-> retries + 1, raised |-> FALSE, connected |-> TRUE]
         ELSE connect_retry(retries + 1, isConnected, outcomes)
    ELSE [attempts |-> retries, raised |-> TRUE, connected |-> isConnected]

RECURSIVE connect_retry_inclusive(_, _, _)
\* the loop with retries <= MAX_CONNECTION_RETRIES
connect_retry_inclusive(retries, isConnected, outcomes) ==
    IF retries <= MAX_CONNECTION_RETRIES
    THEN IF TransportConnect(isConnected, outcomes[retries + 1])
         THEN [attempts |-> retries + 1, raised |-> FALSE, connected |-> TRUE]
         ELSE connect_retry_inclusive(retries + 1, isConnected, outcomes)
    ELSE [attempts |-> retries, raised |-> TRUE, connected |-> isConnected]

connect_one_more(isConnected, outcomes) ==
    connect_retry_inclusive(0, isConnected, outcomes)

\* the loop without the raise after it: connect() returns after three failures
connect_no_raise(isConnected, outcomes) ==
    [connect_retry(0, isConnected, outcomes) EXCEPT !.raised = FALSE]

\* the result: the transport calls made, whether ConnectionFailed is raised,
\* and whether the transport is connected afterwards
connect(isConnected, outcomes) == connect_retry(0, isConnected, outcomes)

\* the record kept of one connect() call
ConnectRecord(isConnected, outcomes) ==
    LET c == connect(isConnected, outcomes)
    IN  [called |-> TRUE, attempts |-> c.attempts, raised |-> c.raised,
         connected |-> c.connected, wasConnected |-> isConnected,
         outcomes |-> IF isConnected THEN <<>>
                      ELSE SubSeq(outcomes, 1, c.attempts)]

(* ------------------- update_max_concurrent_streams() ------------------- *)

\* without the branch for a value below 1
update_max_concurrent_streams_no_floor(read, limit, previous, events) ==
    IF read = previous
    THEN [limit |-> limit, previous |-> previous, events |-> events]
    ELSE IF read > CONCURRENT_STREAMS_SAFETY_MAXIMUM
         THEN [limit |-> CONCURRENT_STREAMS_SAFETY_MAXIMUM, previous |-> read,
               events |-> events + 1]
         ELSE [limit |-> read, previous |-> read, events |-> events + 1]

\* without the early return on an unchanged value
update_max_concurrent_streams_always(read, limit, previous, events) ==
    IF read > CONCURRENT_STREAMS_SAFETY_MAXIMUM
    THEN [limit |-> CONCURRENT_STREAMS_SAFETY_MAXIMUM, previous |-> read,
          events |-> events + 1]
    ELSE IF read < 1
         THEN [limit |-> 1, previous |-> read, events |-> events + 1]
         ELSE [limit |-> read, previous |-> read, events |-> events + 1]

\* without the branch for a value above the safety maximum
update_max_concurrent_streams_no_cap(read, limit, previous, events) ==
    IF read = previous
    THEN [limit |-> limit, previous |-> previous, events |-> events]
    ELSE IF read < 1
         THEN [limit |-> 1, previous |-> read, events |-> events + 1]
         ELSE [limit |-> read, previous |-> read, events |-> events + 1]

\* read is connection.remote_settings.max_concurrent_streams; the result is
\* the two fields of the client and the number of log records written
update_max_concurrent_streams(read, limit, previous, events) ==
    IF read = previous
    THEN [limit |-> limit, previous |-> previous, events |-> events]
    ELSE IF read > CONCURRENT_STREAMS_SAFETY_MAXIMUM
         THEN [limit |-> CONCURRENT_STREAMS_SAFETY_MAXIMUM, previous |-> read,
               events |-> events + 1]
         ELSE IF read < 1
              THEN [limit |-> 1, previous |-> read, events |-> events + 1]
              ELSE [limit |-> read, previous |-> read, events |-> events + 1]

(* --------------------- should_send_notification() ---------------------- *)

\* the comparison made inclusive
should_send_notification_inclusive(notification, streams, limit) ==
    notification # NoToken /\ Len(streams) <= limit

\* without the test of the token
should_send_notification_any_token(notification, streams, limit) ==
    Len(streams) < limit

\* limit is self.__max_concurrent_streams
should_send_notification(notification, streams, limit) ==
    notification # NoToken /\ Len(streams) < limit

(* --------------------- get_notification_result() ----------------------- *)

\* a failure raised as an exception, as send_notification does
get_notification_result_raising(response) ==
    IF response.status = 200
    THEN [raises |-> "Return", value |-> "Success"]
    ELSE [raises |-> "APNsException", value |-> response.body.reason]

\* the test of the status inverted
get_notification_result_inverted(response) ==
    IF response.status # 200
    THEN [raises |-> "Return", value |-> "Success"]
    ELSE [raises |-> "Return", value |-> response.body.reason]

\* get_response raising caught and reported as the outcome of the token
get_notification_result_error_as_outcome ==
    [raises |-> "Return", value |-> "ConnectionError"]

\* how the coroutine ends when get_response raises: nothing catches the
\* exception, the with statement lets it through
get_notification_result_on_error ==
    [raises |-> "ConnectionError", value |-> ""]

\* how the coroutine ends ("Return": raise gen.Return(value)) and with what
get_notification_result(response) ==
    IF response.status = 200
    THEN [raises |-> "Return", value |-> "Success"]
    ELSE [raises |-> "Return", value |-> response.body.reason]

(* ---------------------- send_notification_batch() ---------------------- *)

\* a fresh iterator at every call: next(iter(tokens), None)
next_token_at_restarted(toks, c) == IF c <= Len(toks) THEN toks[1] ELSE NoToken

\* next_token, as next(token_iterator, None) left it
next_token_at(toks, c) == IF c <= Len(toks) THEN toks[c] ELSE NoToken

next_token == next_token_at(tokens, cursor)

\* the condition without the test of the iterator
loop_condition_queue_only(streams, tok) == Len(streams) > 0

\* the condition with >= for >
loop_condition_never_empty(streams, tok) == Len(streams) >= 0 \/ tok # NoToken

\* the condition without the test of the deque
loop_condition_tokens_only(streams, tok) == tok # NoToken

\* the condition of the while loop
loop_condition(streams, tok) == Len(streams) > 0 \/ tok # NoToken

\* open_streams.appendleft(RequestStream(stream_id, next_token))
append_stream_left(streams, stream_id, tok) ==
    <<[stream_id |-> stream_id, token |-> tok]>> \o streams

\* open_streams.append(RequestStream(stream_id, next_token))
append_stream(streams, stream_id, tok) ==
    Append(streams, [stream_id |-> stream_id, token |-> tok])

\* open_streams.pop(): the newest request instead of the oldest
popright(streams) ==
    [item |-> streams[Len(streams)],
     rest |-> SubSeq(streams, 1, Len(streams) - 1)]

\* open_streams.popleft()
popleft(streams) == [item |-> Head(streams), rest |-> Tail(streams)]

\* the limit read from the transport once, before the first request, and
\* kept for the rest of the batch
Refreshed_once ==
    IF max_concurrent_streams = None
    THEN update_max_concurrent_streams(remote_max_concurrent_streams,
                                       max_concurrent_streams,
                                       previous_server_max_concurrent_streams,
                                       limitChangedEvents)
    ELSE [limit |-> max_concurrent_streams,
          previous |-> previous_server_max_concurrent_streams,
          events |-> limitChangedEvents]

\* the limit fields after the update_max_concurrent_streams() of this iteration
Refreshed ==
    update_max_concurrent_streams(remote_max_concurrent_streams,
                                  max_concurrent_streams,
                                  previous_server_max_concurrent_streams,
                                  limitChangedEvents)

\* the staging of the batch up to the while loop: the payload and the headers
\* (built once), token_iterator, next_token, connect(), results = {},
\* open_streams = deque()
Start(toks, outcomes) ==
    /\ pc = "idle"
    /\ LET h == prepare_headers(auth_token, auth_token_expired)
       IN  /\ headers' = h.Authorization
           /\ auth_token' = h.token
           /\ auth_token_expired' = h.expired
    /\ LET c == ConnectRecord(connected, outcomes)
       IN  /\ lastConnect' = c
           /\ connected' = c.connected
           /\ pc' = IF c.raised THEN "failed"
                    ELSE IF loop_condition(<<>>, next_token_at(toks, 1))
                         THEN "loop" ELSE "done"
    /\ tokens' = toks
    /\ cursor' = 1
    /\ open_streams' = <<>>
    /\ pending_stream' = NoStream
    /\ results' = <<>>
    /\ UNCHANGED << clientVars, remote_max_concurrent_streams, arrived,
                    next_stream_id, connLost, ceilingChanges, histVars >>

\* connect() called by the user of the client, outside a batch
Connect(outcomes) ==
    /\ UNCHANGED authVars
    /\ pc = "idle"
    /\ LET c == ConnectRecord(connected, outcomes)
       IN  /\ lastConnect' = c
           /\ connected' = c.connected
    /\ UNCHANGED << pc, loopVars, clientVars, remote_max_concurrent_streams,
                    arrived, next_stream_id, connLost, ceilingChanges,
                    histVars >>

\* what every iteration does first
RefreshStep ==
    /\ lastConnect' = NoConnect
    /\ max_concurrent_streams' = Refreshed.limit
    /\ previous_server_max_concurrent_streams' = Refreshed.previous
    /\ limitChangedEvents' = Refreshed.events

\* one iteration that sends: the request is issued on the transport
IterAdmit ==
    /\ UNCHANGED authVars
    /\ pc = "loop"
    /\ RefreshStep
    /\ should_send_notification(next_token, open_streams, Refreshed.limit)
    /\ connected
    /\ open_streams' = append_stream(open_streams, next_stream_id, next_token)
    /\ next_stream_id' = next_stream_id + 1
    /\ cursor' = cursor + 1
    /\ requested' = Append(requested, next_token)
    /\ trace' = Append(trace, [op |-> "admit", token |-> next_token,
                                stream_id |-> next_stream_id])
    /\ pc' = IF loop_condition(open_streams', next_token_at(tokens, cursor'))
             THEN "loop" ELSE "done"
    /\ UNCHANGED << tokens, pending_stream, results,
                    remote_max_concurrent_streams, connected, arrived,
                    connLost, ceilingChanges, yielded, getResultCalls >>

\* one iteration that would send, on a dropped connection: request() raises
IterAdmitFail ==
    /\ UNCHANGED authVars
    /\ pc = "loop"
    /\ RefreshStep
    /\ should_send_notification(next_token, open_streams, Refreshed.limit)
    /\ ~connected
    /\ pc' = "failed"
    /\ UNCHANGED << loopVars, remote_max_concurrent_streams, connected,
                    arrived, next_stream_id, connLost, ceilingChanges,
                    yielded, trace, requested, getResultCalls >>

\* one iteration that waits: the head of the deque is popped and
\* get_notification_result is called with its stream id
IterDrain ==
    /\ UNCHANGED authVars
    /\ pc = "loop"
    /\ RefreshStep
    /\ ~should_send_notification(next_token, open_streams, Refreshed.limit)
    /\ IF Len(open_streams) = 0
       THEN \* popleft() on an empty deque raises IndexError
            /\ pc' = "failed"
            /\ UNCHANGED << open_streams, pending_stream, trace,
                            getResultCalls >>
       ELSE LET p == popleft(open_streams)
            IN  /\ open_streams' = p.rest
                /\ pending_stream' = p.item
                /\ trace' = Append(trace, [op |-> "drain", token |-> p.item.token,
                                            stream_id |-> p.item.stream_id])
                /\ getResultCalls' =
                       [getResultCalls EXCEPT ![p.item.stream_id] = @ + 1]
                /\ pc' = "await"
    /\ UNCHANGED << tokens, cursor, results, remote_max_concurrent_streams,
                    connected, arrived, next_stream_id, connLost, ceilingChanges, yielded, requested >>

\* get_response returns the response of the awaited stream (what the gateway
\* answered is response): the stream is closed (the with block), the result
\* is classified and yielded, and the loop condition is evaluated again
AwaitResult(response) ==
    /\ UNCHANGED authVars
    /\ lastConnect' = NoConnect
    /\ pc = "await"
    /\ pending_stream.stream_id \in arrived
    /\ arrived' = arrived \ {pending_stream.stream_id}
    /\ pending_stream' = NoStream
    /\ LET result == get_notification_result(response)
       IN  IF result.raises = "Return"
           THEN /\ yielded' = Append(yielded, result.value)
                /\ pc' = IF loop_condition(open_streams, next_token)
                         THEN "loop" ELSE "done"
           ELSE \* an exception leaves the coroutine at the yield
                /\ yielded' = yielded
                /\ pc' = "failed"
    /\ UNCHANGED << tokens, cursor, open_streams, results, clientVars,
                    remote_max_concurrent_streams, connected,
                    next_stream_id, connLost, ceilingChanges,
                    trace, requested, getResultCalls, limitChangedEvents >>

\* get_response raises on a dropped connection: the batch ends with the error
AwaitFail ==
    /\ UNCHANGED authVars
    /\ lastConnect' = NoConnect
    /\ pc = "await"
    /\ ~connected
    /\ LET result == get_notification_result_on_error
       IN  IF result.raises = "Return"
           THEN /\ yielded' = Append(yielded, result.value)
                /\ pending_stream' = NoStream
                /\ pc' = IF loop_condition(open_streams, next_token)
                         THEN "loop" ELSE "done"
           ELSE \* the exception leaves the batch at the yield
                /\ yielded' = yielded
                /\ pending_stream' = pending_stream
                /\ pc' = "failed"
    /\ UNCHANGED << tokens, cursor, open_streams, results, clientVars,
                    remote_max_concurrent_streams, connected, arrived,
                    next_stream_id, connLost, ceilingChanges, trace, requested,
                    getResultCalls, limitChangedEvents >>

(* --------------------------- the gateway ------------------------------- *)

\* the streams with a request sent and the response not read yet
Outstanding ==
    { open_streams[i].stream_id : i \in 1 .. Len(open_streams) }
        \cup (IF pc = "await" THEN {pending_stream.stream_id} ELSE {})

\* a response to an outstanding request reaches the transport
Respond(sid) ==
    /\ UNCHANGED authVars
    /\ lastConnect' = NoConnect
    /\ connected
    /\ sid \in Outstanding
    /\ sid \notin arrived
    /\ arrived' = arrived \cup {sid}
    /\ UNCHANGED << pc, loopVars, clientVars, remote_max_concurrent_streams,
                    connected, next_stream_id, connLost, ceilingChanges,
                    histVars >>

\* a SETTINGS frame changes the advertised ceiling while a batch is running,
\* before the refresh that will see it (before the first refresh of a batch
\* a change is one more initial value)
ChangeCeiling(v) ==
    /\ UNCHANGED authVars
    /\ lastConnect' = NoConnect
    /\ pc = "loop"
    /\ connected
    /\ ceilingChanges < MaxCeilingChanges
    /\ v # remote_max_concurrent_streams
    /\ remote_max_concurrent_streams' = v
    /\ ceilingChanges' = ceilingChanges + 1
    /\ UNCHANGED << pc, loopVars, clientVars, connected, arrived,
                    next_stream_id, connLost, histVars >>

\* the connection drops while a batch is running
LoseConnection ==
    /\ UNCHANGED authVars
    /\ lastConnect' = NoConnect
    /\ pc \in {"loop", "await"}
    /\ connected
    /\ connected' = FALSE
    /\ connLost' = TRUE
    /\ UNCHANGED << pc, loopVars, clientVars, remote_max_concurrent_streams,
                    arrived, next_stream_id, ceilingChanges, histVars >>

\* one iteration of the while loop
IterStep == IterAdmit \/ IterAdmitFail \/ IterDrain

Next ==
    \/ \E toks \in TokenLists, o \in AttemptOutcomes : Start(toks, o)
    \/ \E o \in AttemptOutcomes : Connect(o)
    \/ IterAdmit
    \/ IterAdmitFail
    \/ IterDrain
    \/ \E r \in Responses : AwaitResult(r)
    \/ AwaitFail
    \/ \E sid \in StreamIds : Respond(sid)
    \/ \E v \in Ceilings : ChangeCeiling(v)
    \/ LoseConnection

Spec == Init /\ [][Next]_vars

\* the credential is marked expired (auth_token_expired is set from outside
\* the client), before a batch or while one runs
ExpireToken ==
    /\ pc \in {"idle", "loop"}
    /\ ~auth_token_expired
    /\ auth_token_expired' = TRUE
    /\ lastConnect' = NoConnect
    /\ UNCHANGED << auth_token, headers, pc, loopVars, clientVars,
                    remote_max_concurrent_streams, connected, arrived,
                    next_stream_id, connLost, ceilingChanges, histVars >>

NextAuth == Next \/ ExpireToken

\* the client with a credential that can expire
AuthSpec == Init /\ [][NextAuth]_vars

\* the loop runs on, and the gateway answers every request, while the
\* connection is up
LiveSpec ==
    /\ Spec
    /\ WF_vars(IterStep)
    /\ WF_vars(\E r \in Responses : AwaitResult(r))
    /\ WF_vars(AwaitFail)
    /\ \A sid \in StreamIds : WF_vars(Respond(sid))

(* ------------------------------ claims --------------------------------- *)

\* the entries of the trace with the given op, as RequestStreams
RECURSIVE StreamsOf(_, _)
StreamsOf(tr, op) ==
    IF tr = <<>> THEN <<>>
    ELSE LET rest == StreamsOf(Tail(tr), op)
         IN  IF Head(tr).op = op
             THEN <<[stream_id |-> Head(tr).stream_id, token |-> Head(tr).token]>>
                      \o rest
             ELSE rest

Admitted == StreamsOf(trace, "admit")
Drained == StreamsOf(trace, "drain")

IsPrefix(a, b) == Len(a) <= Len(b) /\ SubSeq(b, 1, Len(a)) = a

\* C1 as stated: at every loop iteration, once update_max_concurrent_streams
\* has refreshed the limit, the open-stream queue holds at most as many
\* entries as the refreshed limit, also when the ceiling was lowered while
\* requests were in flight.
C1_QueueWithinLimitAtEveryIteration ==
    [][IterStep => Len(open_streams) <= max_concurrent_streams']_vars

\* C1 amended: an iteration never leaves the queue longer than the limit it
\* refreshed unless the queue was already longer (the gateway lowered its
\* ceiling while requests were in flight), and then the iteration admits
\* nothing and takes one entry off the queue.
C1_AdmissionWithinLimit ==
    [][IterStep =>
          \/ Len(open_streams') <= max_concurrent_streams'
          \/ /\ Len(open_streams) > max_concurrent_streams'
             /\ Len(open_streams') = Len(open_streams) - 1
             /\ cursor' = cursor]_vars

\* C1 witness: after the ceiling was lowered, an iteration has drained one
\* request and the queue is still longer than the refreshed limit
C1_Witness ==
    /\ pc = "await"
    /\ ceilingChanges > 0
    /\ max_concurrent_streams # None
    /\ Len(open_streams) > max_concurrent_streams

\* C2: the requests drained so far are, in order, the first requests
\* admitted, and the queue holds the remaining admitted requests in the
\* order of their admission, whatever responses have arrived.
C2_FifoDrainOrder ==
    /\ IsPrefix(Drained, Admitted)
    /\ Admitted = Drained \o open_streams

\* C2 witness: the second request admitted is being awaited while the
\* response of the third has already arrived and its own has not
C2_Witness ==
    /\ pc = "await"
    /\ pending_stream.stream_id = 2
    /\ 3 \in arrived
    /\ 2 \notin arrived
    /\ Len(Drained) = 2

Distinct(seq) ==
    \A i, j \in 1 .. Len(seq) : i # j => seq[i] # seq[j]

TokenSet(seq) == { seq[i] : i \in 1 .. Len(seq) }

\* C3: a completed batch over N tokens, none repeated, has produced N
\* outcomes and has delivered one (token, outcome) pair per input token: the
\* results mapping holds exactly the input tokens as its keys.
C3_Completeness ==
    (pc = "done" /\ Distinct(tokens)) =>
        /\ Len(yielded) = Len(tokens)
        /\ DOMAIN results = TokenSet(tokens)
        /\ Cardinality(DOMAIN results) = Len(tokens)

\* C4: no request is passed to get_notification_result more than once, one
\* that has been passed is no longer in the queue, and, on a connection that
\* is never lost, every request admitted is eventually passed to it and its
\* response read: again and again every request admitted so far has been
\* drained, once.
C4_ExactlyOnceDrain ==
    /\ [](\A sid \in StreamIds :
            /\ getResultCalls[sid] <= 1
            /\ (getResultCalls[sid] = 1 => sid < next_stream_id)
            /\ (getResultCalls[sid] = 1 =>
                  \A i \in 1 .. Len(open_streams) :
                      open_streams[i].stream_id # sid))
    /\ ([]~connLost) =>
           []<>(\A sid \in StreamIds :
                   sid < next_stream_id =>
                       (getResultCalls[sid] = 1 /\ sid \notin Outstanding))

\* C4 witness: three requests were admitted and each was drained once
C4_Witness ==
    /\ pc = "done"
    /\ ~connLost
    /\ next_stream_id = 4
    /\ \A sid \in 1 .. 3 : getResultCalls[sid] = 1

\* the batch has ended with every token sent and every request drained
Complete ==
    /\ pc = "done"
    /\ cursor = Len(tokens) + 1
    /\ open_streams = <<>>
    /\ Len(Drained) = Len(tokens)

FailureYielded == \E i \in 1 .. Len(yielded) : yielded[i] # "Success"

\* C5: reading a response whose status is not 200 leaves the loop where a 200
\* would have left it (same queue, same cursor, same continuation, the batch
\* not failed), and, on a connection that is never lost, a batch that has
\* yielded a failure still sends every token and drains every request.
C5_DeliveryFailureNotFatal ==
    /\ [][\A r \in Responses :
            (r.status # 200 /\ AwaitResult(r)) =>
                /\ pc' = IF loop_condition(open_streams, next_token)
                         THEN "loop" ELSE "done"
                /\ open_streams' = open_streams
                /\ cursor' = cursor
                /\ Len(yielded') = Len(yielded) + 1]_vars
    /\ ([]~connLost) => (FailureYielded ~> Complete)

\* C5 witness: the first of three tokens failed and the batch completed
C5_Witness ==
    /\ Complete
    /\ Len(tokens) = 3
    /\ yielded[1] = "BadDeviceToken"
    /\ yielded[3] = "Success"

\* C6: a connect() on a client that is not connected calls the transport's
\* connect at most MAX_CONNECTION_RETRIES (3) times, stops at the first call
\* that succeeds, and raises ConnectionFailed exactly when three calls in a
\* row failed.
C6_ConnectionRetryBudget ==
    (lastConnect.called /\ ~lastConnect.wasConnected) =>
        /\ lastConnect.attempts \in 1 .. 3
        /\ Len(lastConnect.outcomes) = lastConnect.attempts
        /\ \A i \in 1 .. lastConnect.attempts - 1 : ~lastConnect.outcomes[i]
        /\ lastConnect.raised <=> lastConnect.outcomes = <<FALSE, FALSE, FALSE>>
        /\ ~lastConnect.raised => lastConnect.outcomes[lastConnect.attempts]
        /\ connected <=> ~lastConnect.raised
        /\ lastConnect.raised /\ pc # "idle" => pc = "failed"

\* C6 witness: two failed attempts and a third that succeeded
C6_Witness ==
    /\ lastConnect.called
    /\ lastConnect.outcomes = <<FALSE, FALSE, TRUE>>
    /\ ~lastConnect.raised
    /\ connected

Min(a, b) == IF a < b THEN a ELSE b
Max(a, b) == IF a > b THEN a ELSE b

\* C8: an iteration whose refresh reads a ceiling v other than the one read
\* before leaves the limit at min(max(v, 1), 1000): 1 for 0, 1000 for 5000,
\* 250 for 250.
C8_LimitClamping ==
    [][(IterStep /\ remote_max_concurrent_streams
                        # previous_server_max_concurrent_streams) =>
          /\ max_concurrent_streams' =
                 Min(Max(remote_max_concurrent_streams, 1), 1000)
          /\ (remote_max_concurrent_streams = 0 => max_concurrent_streams' = 1)
          /\ (remote_max_concurrent_streams = 5000
                  => max_concurrent_streams' = 1000)
          /\ (remote_max_concurrent_streams = 250
                  => max_concurrent_streams' = 250)
          /\ previous_server_max_concurrent_streams'
                 = remote_max_concurrent_streams]_vars

\* C8 witness: a ceiling of 0 was read after another one and the limit is 1
C8_Witness ==
    /\ previous_server_max_concurrent_streams = 0
    /\ max_concurrent_streams = 1
    /\ ceilingChanges > 0
    /\ limitChangedEvents = 2

\* C9: an iteration whose refresh reads the ceiling read by the refresh
\* before changes neither the limit nor the remembered ceiling and writes no
\* log record; as long as the gateway has not changed its ceiling, all the
\* refreshes together have written one record.
C9_NoRedundantReclamp ==
    /\ [][(IterStep /\ remote_max_concurrent_streams
                           = previous_server_max_concurrent_streams) =>
             UNCHANGED << max_concurrent_streams,
                          previous_server_max_concurrent_streams,
                          limitChangedEvents >>]_vars
    /\ []((ceilingChanges = 0 /\ Len(trace) >= 1) => limitChangedEvents = 1)

\* C9 witness: two refreshes have read the same ceiling and one record was
\* written
C9_Witness ==
    /\ ceilingChanges = 0
    /\ Len(trace) = 2
    /\ limitChangedEvents = 1

\* the decisions of a batch over toks under a limit that stays at limit:
\* min(N, limit) admissions, then a drain and an admission in turn until the
\* tokens run out, then drains
ExpectedTrace(toks, limit) ==
    LET N == Len(toks)
        m == Min(N, limit)
        admit(i) == [op |-> "admit", token |-> toks[i], stream_id |-> i]
        drain(i) == [op |-> "drain", token |-> toks[i], stream_id |-> i]
    IN  [p \in 1 .. 2 * N |->
            IF p <= m THEN admit(p)
            ELSE IF p <= m + 2 * (N - m)
                 THEN IF (p - m) % 2 = 1
                      THEN drain((p - m + 1) \div 2)
                      ELSE admit(m + (p - m) \div 2)
                 ELSE drain(p - N)]

\* C10: an iteration on a live connection admits the next token exactly when
\* one remains and the queue is shorter than the limit refreshed in that
\* iteration, and drains the head of the queue otherwise; a completed batch
\* that saw one limit throughout has made the decisions of ExpectedTrace,
\* which for A, B, C under 2 are admit A, admit B, drain A, admit C, drain B,
\* drain C.
C10_AdmitOrDrain ==
    /\ [][(IterStep /\ connected) =>
             IF next_token # NoToken
                /\ Len(open_streams) < max_concurrent_streams'
             THEN /\ trace' = Append(trace, [op |-> "admit", token |-> next_token,
                                             stream_id |-> next_stream_id])
                  /\ open_streams' = Append(open_streams,
                                            [stream_id |-> next_stream_id,
                                             token |-> next_token])
                  /\ cursor' = cursor + 1
             ELSE /\ trace' = Append(trace, [op |-> "drain",
                                             token |-> Head(open_streams).token,
                                             stream_id |-> Head(open_streams).stream_id])
                  /\ open_streams' = Tail(open_streams)
                  /\ pending_stream' = Head(open_streams)
                  /\ cursor' = cursor]_vars
    /\ []((pc = "done" /\ limitChangedEvents = 1) =>
             trace = ExpectedTrace(tokens, max_concurrent_streams))
    /\ []((pc = "done" /\ limitChangedEvents = 1 /\ max_concurrent_streams = 2
             /\ tokens = <<"A", "B", "C">>) =>
             trace = << [op |-> "admit", token |-> "A", stream_id |-> 1],
                        [op |-> "admit", token |-> "B", stream_id |-> 2],
                        [op |-> "drain", token |-> "A", stream_id |-> 1],
                        [op |-> "admit", token |-> "C", stream_id |-> 3],
                        [op |-> "drain", token |-> "B", stream_id |-> 2],
                        [op |-> "drain", token |-> "C", stream_id |-> 3] >>)

\* C10 witness: the batch over A, B, C under a limit of 2 has completed
C10_Witness ==
    /\ pc = "done"
    /\ tokens = <<"A", "B", "C">>
    /\ max_concurrent_streams = 2
    /\ limitChangedEvents = 1

C12_Termination ==
    /\ [](pc = "done" =>
            /\ cursor = Len(tokens) + 1
            /\ open_streams = <<>>
            /\ pending_stream = NoStream
            /\ Len(Admitted) = Len(tokens)
            /\ Len(Drained) = Len(tokens))
    /\ []((pc = "loop") => (cursor <= Len(tokens) \/ open_streams # <<>>))
    /\ ([]~connLost) => ((pc \in {"loop", "await"}) ~> (pc = "done"))

\* C12 witness: a batch of three tokens has ended after a ceiling change
C12_Witness ==
    /\ Complete
    /\ ~connLost
    /\ Len(tokens) = 3
    /\ ceilingChanges = 1
    /\ remote_max_concurrent_streams = 0

\* the batch has been started
Started == pc # "idle"

\* C13 as stated: a batch over no token completes with no outcome, whatever
\* the attempts to connect do.
C13_EmptyBatchCompletesWithoutConnection ==
    (Started /\ tokens = <<>>) =>
        /\ pc = "done"
        /\ yielded = <<>>
        /\ requested = <<>>
        /\ trace = <<>>

\* C13 amended: a batch over no token issues no request, drains nothing and
\* yields nothing, but it calls connect() first: it completes when connect()
\* returns and fails with ConnectionFailed when connect() raises.
C13_EmptyBatch ==
    (Started /\ tokens = <<>>) =>
        /\ yielded = <<>>
        /\ requested = <<>>
        /\ trace = <<>>
        /\ next_stream_id = 1
        /\ \A sid \in StreamIds : getResultCalls[sid] = 0
        /\ lastConnect.called
        /\ lastConnect.attempts >= 1
        /\ pc = IF lastConnect.raised THEN "failed" ELSE "done"

\* C13 witness: a batch over no token has completed after a connect() that
\* needed three attempts
C13_Witness ==
    /\ Started
    /\ tokens = <<>>
    /\ pc = "done"
    /\ lastConnect.attempts = 3

\* C14: when get_response raises on a dropped connection the batch ends with
\* the error, the awaited request yields no outcome, and a batch never ends
\* normally with fewer outcomes than tokens.
C14_ConnectionLossFatal ==
    /\ [][AwaitFail =>
             /\ pc' = "failed"
             /\ yielded' = yielded
             /\ pending_stream' = pending_stream]_vars
    /\ [](pc = "done" =>
             /\ Len(yielded) = Len(tokens)
             /\ Len(Drained) = Len(tokens))
    /\ [](pc = "failed" => (connLost \/ lastConnect.raised))

\* C14 witness: the batch has failed on a dropped connection with one request
\* awaited and another in the queue
C14_Witness ==
    /\ pc = "failed"
    /\ connLost
    /\ pending_stream # NoStream
    /\ pending_stream.stream_id \notin arrived
    /\ Len(open_streams) >= 1
    /\ Len(yielded) < Len(tokens)

\* the requests in flight: the queue, and the request being awaited
InFlight ==
    (IF pc = "await" THEN <<pending_stream>> ELSE <<>>) \o open_streams

\* C15 as stated: the queue never holds two requests for one token, also
\* when the input repeats a token.
C15_OneRequestPerTokenInFlight ==
    \A i, j \in 1 .. Len(open_streams) :
        i # j => open_streams[i].token # open_streams[j].token

\* C15 amended: the requests in the queue are those of consecutive positions
\* of the input, in order, ending at the last token sent; the queue holds
\* two requests for one token only when the input holds that token at two
\* positions, and never when no token is repeated.
C15_QueueIsInputSlice ==
    /\ \A i \in 1 .. Len(open_streams) :
           /\ cursor - 1 - Len(open_streams) + i \in 1 .. Len(tokens)
           /\ open_streams[i].token
                  = tokens[cursor - 1 - Len(open_streams) + i]
    /\ Distinct(tokens) =>
           \A i, j \in 1 .. Len(open_streams) :
               i # j => open_streams[i].token # open_streams[j].token

\* C15 witness: two requests for the same token are in the queue
C15_Witness ==
    /\ Len(open_streams) = 2
    /\ open_streams[1].token = open_streams[2].token
    /\ open_streams[1].stream_id # open_streams[2].stream_id

\* C16 as stated: a request is issued only with an Authorization header
\* that is the current credential, and never while the credential is marked
\* expired: after the mark the credential is regenerated before the next
\* request, also in a batch already in progress.
C16_NoExpiredCredentialOnRequest ==
    [][(requested' # requested) =>
           /\ ~auth_token_expired
           /\ headers = auth_token]_vars

\* C17: the loop of a batch is entered only after the connect() of that
\* batch returned with the connection established, and a request is issued
\* only on an established connection; when connect() raises ConnectionFailed
\* the batch fails at once, no request issued and no response read.
C17_ConnectBeforeSend ==
    /\ [][(pc = "idle" /\ pc' # "idle") =>
             /\ lastConnect'.called
             /\ lastConnect'.raised => (pc' = "failed")
             /\ (pc' \in {"loop", "done"}) =>
                    (~lastConnect'.raised /\ connected')
             /\ requested' = <<>>]_vars
    /\ [][(requested' # requested) => (pc = "loop" /\ connected)]_vars
    /\ [][IterStep => (connected \/ connLost)]_vars
    /\ []((pc = "failed" /\ lastConnect.raised) =>
             /\ requested = <<>>
             /\ yielded = <<>>
             /\ trace = <<>>
             /\ next_stream_id = 1
             /\ \A sid \in StreamIds : getResultCalls[sid] = 0)

\* C17 witness: a batch of two tokens has failed in connect(), every attempt
\* refused
C17_Witness ==
    /\ pc = "failed"
    /\ Len(tokens) = 2
    /\ lastConnect.raised
    /\ lastConnect.attempts = MAX_CONNECTION_RETRIES
    /\ ~connected
    /\ requested = <<>>

\* C18: the limit is undefined exactly as long as no refresh has read a
\* ceiling; once defined it lies in 1 .. 1000 whatever the peer advertises,
\* and the limit an iteration compares the queue length against is defined
\* and in that range.
C18_LimitRange ==
    /\ []((max_concurrent_streams = None) <=> (limitChangedEvents = 0))
    /\ []((max_concurrent_streams = None) => (trace = <<>>))
    /\ []((max_concurrent_streams # None) =>
             (/\ max_concurrent_streams >= 1
              /\ max_concurrent_streams <= CONCURRENT_STREAMS_SAFETY_MAXIMUM))
    /\ [][IterStep =>
             /\ Refreshed.limit # None
             /\ Refreshed.limit \in 1 .. CONCURRENT_STREAMS_SAFETY_MAXIMUM
             /\ max_concurrent_streams' = Refreshed.limit]_vars

\* C18 witness: the peer advertises 5000 and the limit is 1000 with a
\* request in the queue
C18_Witness ==
    /\ previous_server_max_concurrent_streams = 5000
    /\ max_concurrent_streams = CONCURRENT_STREAMS_SAFETY_MAXIMUM
    /\ Len(open_streams) >= 1

\* the limit that the ceiling v gives
Clamp(v) == Min(Max(v, 1), CONCURRENT_STREAMS_SAFETY_MAXIMUM)

\* C19: every iteration decides with the limit of the ceiling the peer
\* advertises at that moment: a request is issued only while the queue is
\* shorter than that limit, and while the queue is at or above it the
\* iteration issues nothing and removes the head of the queue.
C19_Responsiveness ==
    /\ [][IterStep =>
             /\ previous_server_max_concurrent_streams'
                    = remote_max_concurrent_streams
             /\ max_concurrent_streams'
                    = Clamp(remote_max_concurrent_streams)]_vars
    /\ [][(requested' # requested) =>
             Len(open_streams) < Clamp(remote_max_concurrent_streams)]_vars
    /\ [][(IterStep /\ Len(open_streams)
                           >= Clamp(remote_max_concurrent_streams)) =>
             /\ requested' = requested
             /\ cursor' = cursor
             /\ Len(open_streams') = Len(open_streams) - 1]_vars

\* C19 witness: with two requests in the queue the ceiling went from 2 to 0;
\* the third token was sent only after both had been drained
C19_Witness ==
    /\ Len(tokens) = 3
    /\ ceilingChanges = 1
    /\ max_concurrent_streams = 1
    /\ previous_server_max_concurrent_streams = 0
    /\ Len(trace) = 5
    /\ trace[1].op = "admit"
    /\ trace[2].op = "admit"
    /\ trace[3].op = "drain"
    /\ trace[4].op = "drain"
    /\ trace[5].op = "admit"

\* C20: the tokens of the requests issued so far are the tokens of the input
\* before the cursor, in input order, and when the batch has completed they
\* are the whole input: none skipped, none sent twice, none out of order.
C20_EachTokenSentOnceInOrder ==
    /\ cursor \in 1 .. Len(tokens) + 1
    /\ Len(requested) = cursor - 1
    /\ requested = SubSeq(tokens, 1, cursor - 1)
    /\ \A i \in 1 .. Len(Admitted) : Admitted[i].token = tokens[i]
    /\ Len(Admitted) = Len(requested)
    /\ (pc = "done") => (requested = tokens)

\* C20 witness: a batch with a repeated token has completed after a change
\* of the ceiling
C20_Witness ==
    /\ pc = "done"
    /\ tokens = <<"A", "A", "B">>
    /\ requested = tokens
    /\ ceilingChanges = 1
    /\ Len(yielded) = 3

====
